---- MODULE Spec2Model ----
(***************************************************************************)
(* A model of src/apis/polymarket.py: the window-chunked price fetch       *)
(* (price_history), the offset-paginated trade fetch and its bucketing     *)
(* (volume_history) and the orchestrator (fetch).                          *)
(*                                                                         *)
(* The program is single-threaded and blocking; the only points at which   *)
(* the outside world acts are the HTTP requests.  Each action below is the *)
(* code that runs from one requests.get up to the next one (or up to the   *)
(* return / raise of the entry point), with the response drawn from a      *)
(* bounded set.                                                            *)
(*                                                                         *)
(* Python values: None / an absent key is the empty tuple <<>>, a present  *)
(* value v is <<v>>; a dict is the sequence of its items in insertion      *)
(* order; a list of trades is kept run-length encoded (a run [item, n] is  *)
(* n consecutive equal items), so that pages of 500 items stay small.      *)
(***************************************************************************)
EXTENDS Integers, Sequences, FiniteSets, TLC

(***************************************************************************)
(* Bounds of the model.                                                    *)
(***************************************************************************)
SubSecond == 2       \* clock ticks per second: datetimes are finer than int(timestamp())
MaxWindows == 3      \* the longest range price_history is called with, in windows
MaxPages == 3        \* the upstream trade listing ends within this many pages
MaxMarkets == 2      \* markets in one event

(***************************************************************************)
(* Program constants.                                                      *)
(***************************************************************************)
PageSize == 500                      \* "limit": 500, len(data) == 500, offset += 500
SleepSeconds == 1                    \* time.sleep(1)
Day == 86400 * SubSecond             \* one day, in ticks
Window == 15 * Day                   \* timedelta(days=15)

VARIABLES
    caller,            \* the entry point called: "price_history", "volume_history", "fetch"
    pc,                \* "call": the entry point is being called; "metadata", "price",
                       \* "trades": the request about to be issued; "returned",
                       \* "raised": the entry point has ended
    exc,               \* the exception the entry point raised ("" when none)
    ret,               \* the value the entry point returned
    args,              \* the arguments of the call
    \* fetch
    markets,           \* dict question -> market_info, after filtering
    min_start_date, max_end_date,
    idx,               \* position of the for loop over markets.items()
    prices,            \* the 'prices' value of the dict literal being built
    historical_data,   \* dict question -> {'prices', 'volumes'}
    warnings,          \* questions a warning was printed for
    \* price_history
    current_start, end, full_data,
    \* volume_history
    bucket_width,      \* its fidelity argument (seconds)
    start_ts, end_ts, offset, all_trades,
    \* the outside world
    metadata_requests, \* number of metadata requests issued
    metadata_response, \* the response to the metadata request (None before it)
    price_requests,    \* the price-history requests issued, in order
    price_responses,   \* the response to each price-history request
    trade_requests,    \* the trade requests issued, in order
    trade_pages,       \* the response to each trade request
    clock              \* seconds slept so far

fetchVars == <<markets, min_start_date, max_end_date, idx, prices, historical_data,
               warnings>>
priceVars == <<current_start, end, full_data>>
volumeVars == <<bucket_width, start_ts, end_ts, offset, all_trades>>
worldVars == <<metadata_requests, metadata_response, price_requests, price_responses,
               trade_requests, trade_pages, clock>>
vars == <<caller, args, pc, exc, ret, fetchVars, priceVars, volumeVars, worldVars>>

None == <<>>
Some(v) == <<v>>

Min(a, b) == IF a < b THEN a ELSE b

RECURSIVE SumSeq(_)
SumSeq(s) == IF s = <<>> THEN 0 ELSE Head(s) + SumSeq(Tail(s))

(***************************************************************************)
(* price_history                                                           *)
(***************************************************************************)

\* int(dt.timestamp()): whole epoch seconds of a point in time (ticks >= 0)
IntTimestamp(t) == t \div SubSecond

\* chunk_end = min(current_start + timedelta(days=15), end)
ChunkEndUncapped(cs, e) == cs + Window
ChunkEnd(cs, e) == Min(cs + Window, e)

\* the loop condition: while current_start < end
PriceLoopRuns(cs, e) == cs < e

\* params of one price-history request
PriceParams(token, fid, cs, ce) ==
    [market |-> token, startTs |-> IntTimestamp(cs), endTs |-> IntTimestamp(ce),
     fidelity |-> fid]

\* What requests.get / raise_for_status / json() can produce for one price
\* request: a timeout, a transport error, a non-success status, or a JSON
\* object with or without a 'history' list.
FailureKinds == {"Timeout", "ConnectionError", "HTTPError"}
PriceBodies(p) ==
    { [history |-> None],
      [history |-> Some(<<>>)],
      [history |-> Some(<<[t |-> p.startTs, p |-> 1]>>)] }
PriceResponses(p) ==
    IF caller = "fetch"
    THEN {[status |-> "Timeout"],
          [status |-> "ok", data |-> [history |-> Some(<<[t |-> p.startTs, p |-> 1]>>)]]}
    ELSE {[status |-> k] : k \in FailureKinds}
         \cup {[status |-> "ok", data |-> d] : d \in PriceBodies(p)}

\* if 'history' in data: full_data.extend(data['history'])
ExtendHistory(fd, data) ==
    IF data.history = None THEN fd ELSE fd \o data.history[1]

(***************************************************************************)
(* volume_history                                                          *)
(***************************************************************************)

\* A trade object of the trades endpoint.  size arrives as a JSON number or
\* as a numeric string; side may be absent.
Num(n) == [str |-> FALSE, val |-> n]
Str(n) == [str |-> TRUE, val |-> n]
RawTrade(ts, size, side) == [timestamp |-> ts, size |-> size, side |-> side]

Items ==
    { RawTrade(Some(10), Some(Num(2)), Some("BUY")),
      RawTrade(Some(15), Some(Str(1)), Some("SELL")),
      RawTrade(Some(65), Some(Num(1)), Some("BUY")),
      RawTrade(Some(65), Some(Str(3)), Some("SELL")),
      RawTrade(None, Some(Num(1)), Some("BUY")),
      RawTrade(Some(10), None, Some("SELL")),
      RawTrade(Some(65), Some(Num(2)), Some("UNKNOWN")),
      RawTrade(Some(15), Some(Num(1)), None) }
FillItem == RawTrade(Some(65), Some(Num(1)), Some("BUY"))

\* a list of len items: head, then len - 1 times fill
Page(head, fill, len) ==
    IF len = 0 THEN <<>>
    ELSE IF len = 1 THEN <<[item |-> head, n |-> 1]>>
    ELSE IF head = fill THEN <<[item |-> head, n |-> len]>>
    ELSE <<[item |-> head, n |-> 1], [item |-> fill, n |-> len - 1]>>

\* len(data)
RECURSIVE PageLen(_)
PageLen(data) == IF data = <<>> THEN 0 ELSE Head(data).n + PageLen(Tail(data))

ShortPages ==
    {Page(h, FillItem, len) : h \in Items, len \in {0, 1, 240, PageSize - 1}}
    \cup {Page(h, f, 2) : h \in Items, f \in Items}
FullPages == {Page(h, FillItem, PageSize) : h \in Items}

\* What one trades request can produce.  The upstream listing is finite: its
\* page number k is full only while k < MaxPages.
TradeResponses(k) ==
    IF caller = "fetch"
    THEN {[status |-> "Timeout"], [status |-> "ok", data |-> <<>>],
          [status |-> "ok", data |-> Page(RawTrade(Some(15), Some(Num(1)), None), FillItem, 1)]}
         \cup (IF k < MaxPages
               THEN {[status |-> "ok", data |-> Page(FillItem, FillItem, PageSize)]}
               ELSE {})
    ELSE {[status |-> f] : f \in FailureKinds}
         \cup {[status |-> "ok", data |-> d] : d \in ShortPages}
         \cup (IF k < MaxPages THEN {[status |-> "ok", data |-> d] : d \in FullPages}
               ELSE {})

\* float(size)
Float(size) == size.val

\* if ts is None or size is None: continue
IsValidTrade(trade) == trade.timestamp # None /\ trade.size # None

\* commented out in the source: if ts < start_ts or ts > end_ts: continue
InDateRangeFiltered(trade, s, e) ==
    ~(trade.timestamp[1] < s \/ trade.timestamp[1] > e)
InDateRange(trade, s, e) == TRUE

\* side = trade.get('side', 'UNKNOWN')
SideOf(trade) == IF trade.side = None THEN "UNKNOWN" ELSE trade.side[1]

\* the dict appended to all_trades
Validated(trade) ==
    [timestamp |-> trade.timestamp[1], quantity |-> Float(trade.size[1]),
     side |-> SideOf(trade)]

\* the for loop over one page: the runs appended to all_trades
RECURSIVE ValidTrades(_, _, _)
ValidTrades(data, s, e) ==
    IF data = <<>> THEN <<>>
    ELSE LET r == Head(data)
             rest == ValidTrades(Tail(data), s, e)
         IN  IF IsValidTrade(r.item) /\ InDateRange(r.item, s, e)
             THEN <<[item |-> Validated(r.item), n |-> r.n]>> \o rest
             ELSE rest

\* number of items of a run-length encoded list
RECURSIVE Count(_)
Count(runs) == IF runs = <<>> THEN 0 ELSE Head(runs).n + Count(Tail(runs))

\* seconds slept while one page is processed: time.sleep(1) follows the
\* append, inside the for loop, so it runs once per appended trade
SleptFor(data, s, e) == SleepSeconds * Count(ValidTrades(data, s, e))

\* if len(data) == 500: offset += 500 (continue) else: break
IsFullPage(data) == PageLen(data) = PageSize
NextOffsetByOne(o) == o + 1
NextOffset(o) == o + PageSize

\* chunk_ts = ts - (ts % fidelity)
ChunkTsRemainder(ts, fid) == ts % fid
ChunkTs(ts, fid) == ts - (ts % fid)

\* defaultdict(lambda: {'BUY': 0, 'SELL': 0, 'BUY_COUNT': 0, 'SELL_COUNT': 0})
DefaultBucket == [BUY |-> 0, SELL |-> 0, BUY_COUNT |-> 0, SELL_COUNT |-> 0]
BucketSides == {"BUY", "SELL"}

\* volume_data[chunk_ts][side] += quantity; volume_data[chunk_ts][side_COUNT] += 1,
\* for the n trades of one run
AddTrades(b, t, n) ==
    IF t.side = "BUY"
    THEN [b EXCEPT !.BUY = @ + t.quantity * n, !.BUY_COUNT = @ + n]
    ELSE [b EXCEPT !.SELL = @ + t.quantity * n, !.SELL_COUNT = @ + n]

\* the aggregation loop.  volume_data[chunk_ts] inserts the default bucket;
\* indexing that plain dict with a side other than BUY / SELL raises KeyError.
RECURSIVE Accumulate(_, _, _)
Accumulate(vd, trades, fid) ==
    IF trades = <<>> THEN [error |-> "", volume_data |-> vd]
    ELSE LET r == Head(trades)
             key == ChunkTs(r.item.timestamp, fid)
             base == IF key \in DOMAIN vd THEN vd ELSE vd @@ (key :> DefaultBucket)
         IN  IF r.item.side \notin BucketSides
             THEN [error |-> "KeyError", volume_data |-> base]
             ELSE Accumulate([base EXCEPT ![key] = AddTrades(@, r.item, r.n)],
                             Tail(trades), fid)

\* sorted(volume_data.keys())
RECURSIVE Sorted(_)
Sorted(S) ==
    IF S = {} THEN <<>>
    ELSE LET m == CHOOSE x \in S : \A y \in S : x <= y
         IN  <<m>> \o Sorted(S \ {m})

\* the result list built from volume_data
Emit(vd) ==
    LET keys == Sorted(DOMAIN vd)
    IN  [i \in 1..Len(keys) |->
            [timestamp |-> keys[i],
             buy_volume |-> vd[keys[i]].BUY, sell_volume |-> vd[keys[i]].SELL,
             buy_count |-> vd[keys[i]].BUY_COUNT, sell_count |-> vd[keys[i]].SELL_COUNT]]

EmptyDict == [k \in {} |-> DefaultBucket]

(***************************************************************************)
(* extract_event_slug, fetch_market_metadata, remove_placeholder_markets   *)
(*                                                                         *)
(* A string is the tuple of its characters.  A URL is given as the list    *)
(* url.split("/event/") yields: it contains the marker iff that list has   *)
(* more than one part.                                                     *)
(***************************************************************************)
Whitespace == {" ", "\t", "\n", "\r"}

\* str.strip()
RECURSIVE LStrip(_)
LStrip(s) == IF s # <<>> /\ Head(s) \in Whitespace THEN LStrip(Tail(s)) ELSE s
RECURSIVE RStrip(_)
RStrip(s) ==
    IF s # <<>> /\ s[Len(s)] \in Whitespace THEN RStrip(SubSeq(s, 1, Len(s) - 1)) ELSE s
Strip(s) == RStrip(LStrip(s))

\* extract_event_slug: the slug, or the exception raised
ExtractEventSlugUnchecked(parts) ==
    IF Len(parts) < 2 THEN [error |-> "InvalidURLError", slug |-> <<>>]
    ELSE [error |-> "", slug |-> Strip(parts[Len(parts)])]
ExtractEventSlug(parts) ==
    IF Len(parts) < 2 THEN [error |-> "InvalidURLError", slug |-> <<>>]
    ELSE LET slug == Strip(parts[Len(parts)])
         IN  IF slug = <<>> THEN [error |-> "InvalidURLError", slug |-> <<>>]
             ELSE [error |-> "", slug |-> slug]

UpperCase == <<"A", "B", "C", "D", "E", "F", "G", "H", "I", "J", "K", "L", "M",
               "N", "O", "P", "Q", "R", "S", "T", "U", "V", "W", "X", "Y", "Z">>
LowerCase == <<"a", "b", "c", "d", "e", "f", "g", "h", "i", "j", "k", "l", "m",
               "n", "o", "p", "q", "r", "s", "t", "u", "v", "w", "x", "y", "z">>
Letters == {LowerCase[i] : i \in 1..26}
WordChars == Letters \cup {UpperCase[i] : i \in 1..26}
             \cup {"0", "1", "2", "3", "4", "5", "6", "7", "8", "9", "_"}

\* str.lower()
LowerChar(c) ==
    IF \E i \in 1..26 : UpperCase[i] = c
    THEN LowerCase[CHOOSE i \in 1..26 : UpperCase[i] = c]
    ELSE c
Lower(s) == [i \in 1..Len(s) |-> LowerChar(s[i])]

\* whether word w occurs in s at position j
StartsAt(s, j, w) ==
    /\ j + Len(w) - 1 <= Len(s)
    /\ \A k \in 1..Len(w) : s[j + k - 1] = w[k]

\* (be|win|lose|"|$) at position j; $ also matches before a final newline
TailMatches(s, j) ==
    \/ StartsAt(s, j, <<"b", "e">>)
    \/ StartsAt(s, j, <<"w", "i", "n">>)
    \/ StartsAt(s, j, <<"l", "o", "s", "e">>)
    \/ StartsAt(s, j, <<"\"">>)
    \/ j = Len(s) + 1
    \/ (j = Len(s) /\ s[j] = "\n")

\* re.search(r'\b[a-z][\s"\)]\s*(be|win|lose|"|$)', s)
HasPlaceholder(s) ==
    \E i \in 1..Len(s) :
        /\ i = 1 \/ s[i - 1] \notin WordChars
        /\ s[i] \in Letters
        /\ i + 1 <= Len(s)
        /\ s[i + 1] \in Whitespace \cup {"\"", ")"}
        /\ \E j \in (i + 2)..(Len(s) + 1) :
              /\ \A k \in (i + 2)..(j - 1) : s[k] \in Whitespace
              /\ TailMatches(s, j)

\* remove_placeholder_markets
RemoveNoMarkets(d) == d
RemovePlaceholderMarkets(d) ==
    SelectSeq(d, LAMBDA kv : ~HasPlaceholder(Lower(kv.question)))

\* result[key] = value on a dict: a present key keeps its position
DictSet(d, key, value) ==
    IF \E i \in 1..Len(d) : d[i].question = key
    THEN [i \in 1..Len(d) |->
             IF d[i].question = key THEN [question |-> key, info |-> value] ELSE d[i]]
    ELSE Append(d, [question |-> key, info |-> value])

\* the loop of fetch_market_metadata over the event's markets
RECURSIVE BuildResult(_, _)
BuildResult(result, ms) ==
    IF ms = <<>> THEN result
    ELSE LET m == Head(ms)
         IN  BuildResult(
                 DictSet(result, m.question,
                         [start_date |-> m.startDate, end_date |-> m.closedTime,
                          condition_id |-> m.conditionId,
                          clob_token_ids |-> m.clobTokenIds]),
                 Tail(ms))

\* fetch_market_metadata after the request: the dict, or the exception raised
MarketMetadata(resp) ==
    IF resp.status # "ok" THEN [error |-> "APIRequestError", result |-> <<>>]
    ELSE IF resp.data = <<>> THEN [error |-> "APIRequestError", result |-> <<>>]
    ELSE IF resp.data[1].markets = <<>> THEN [error |-> "APIRequestError", result |-> <<>>]
    ELSE [error |-> "", result |-> BuildResult(<<>>, resp.data[1].markets)]

\* a date of the metadata is truthy when present
Truthy(d) == d # None

\* start_dates / end_dates of fetch
StartDates(ms) == {ms[i].info.start_date[1] : i \in {j \in 1..Len(ms) : Truthy(ms[j].info.start_date)}}
EndDates(ms) == {ms[i].info.end_date[1] : i \in {j \in 1..Len(ms) : Truthy(ms[j].info.end_date)}}
MinOf(S) == CHOOSE x \in S : \A y \in S : x <= y
MaxOf(S) == CHOOSE x \in S : \A y \in S : x >= y

\* parse_date on a date of the metadata: the point in time it denotes (ticks)
ParseDate(d) == d

\* json.loads(market_info['clob_token_ids'])[0]
PrimaryTokenId(info) == Head(info.clob_token_ids)

QuestionCandidateA ==
    <<"W", "i", "l", "l", " ", "C", "a", "n", "d", "i", "d", "a", "t", "e", " ", "A",
      " ", "w", "i", "n", "?">>
QuestionLakers ==
    <<"W", "i", "l", "l", " ", "t", "h", "e", " ", "L", "a", "k", "e", "r", "s", " ",
      "w", "i", "n", " ", "t", "h", "e", " ", "c", "h", "a", "m", "p", "i", "o", "n",
      "s", "h", "i", "p", "?">>
QuestionPlanB ==
    <<"P", "l", "a", "n", " ", "B">>

Market(q, s, e, c, t) ==
    [question |-> q, startDate |-> s, closedTime |-> e, conditionId |-> c,
     clobTokenIds |-> t]
MarketChoices ==
    { Market(QuestionCandidateA, Some(0), Some(2 * Day), "0xa", <<"a1", "a2">>),
      Market(QuestionLakers, Some(Day), Some(17 * Day), "0xb", <<"b1", "b2">>),
      Market(QuestionPlanB, None, Some(Day), "0xc", <<"c1", "c2">>),
      Market(QuestionLakers, Some(Day), None, "0xd", <<"d1">>) }

RECURSIVE SeqsUpTo(_, _)
SeqsUpTo(S, n) ==
    IF n = 0 THEN {<<>>}
    ELSE LET shorter == SeqsUpTo(S, n - 1)
         IN  shorter \cup {Append(s, x) : s \in shorter, x \in S}

MetadataResponses ==
    {[status |-> k] : k \in {"Timeout", "HTTPError"}}
    \cup {[status |-> "ok", data |-> <<>>]}
    \cup {[status |-> "ok", data |-> <<[markets |-> ms]>>] :
             ms \in SeqsUpTo(MarketChoices, MaxMarkets)}

Host == <<"p", "m">>
Urls ==
    { <<Host>>,
      <<Host, <<" ", "s", "\n">>>>,
      <<Host, <<" ">>>>,
      <<Host, <<>>>>,
      <<Host, <<"x">>, <<"s", "2">>>> }

(***************************************************************************)
(* The calls.                                                              *)
(***************************************************************************)
Spans ==
    {-1, 0, MaxWindows * Window}
    \cup {k * Window + r : k \in 0..(MaxWindows - 1),
                           r \in {1, SubSecond, 10 * Day, Window - 1, Window}}
PriceArgs ==
    {[token_id |-> "t1", fidelity |-> 60, start_date |-> s, end_date |-> s + d] :
        s \in {0, 1}, d \in Spans}
VolumeArgs ==
    {[condition_id |-> "0xc", start_date |-> 0, end_date |-> 30 * SubSecond,
      fidelity |-> f] : f \in {25, 60}}
FetchArgs ==
    {[url |-> u, fidelity |-> 1, exclude_placeholders |-> x, timeout |-> 10] :
        u \in Urls, x \in BOOLEAN}

InitLocals ==
    /\ pc = "call" /\ exc = "" /\ ret = <<>>
    /\ markets = <<>> /\ min_start_date = None /\ max_end_date = None
    /\ idx = 0 /\ prices = <<>> /\ historical_data = <<>> /\ warnings = <<>>
    /\ current_start = 0 /\ end = 0 /\ full_data = <<>>
    /\ bucket_width = 0 /\ start_ts = 0 /\ end_ts = 0 /\ offset = 0 /\ all_trades = <<>>
    /\ metadata_requests = 0 /\ metadata_response = None
    /\ price_requests = <<>> /\ price_responses = <<>> /\ trade_requests = <<>>
    /\ trade_pages = <<>> /\ clock = 0

InitPrice == caller = "price_history" /\ args \in PriceArgs /\ InitLocals
InitVolume == caller = "volume_history" /\ args \in VolumeArgs /\ InitLocals
InitFetch == caller = "fetch" /\ args \in FetchArgs /\ InitLocals

\* return v / raise e from the entry point
RaiseTopSwallowed(e) == pc' = "returned" /\ exc' = "" /\ ret' = full_data
ReturnTop(v) == pc' = "returned" /\ exc' = "" /\ ret' = v
RaiseTop(e) == pc' = "raised" /\ exc' = e /\ ret' = <<>>

\* volume_history, lines 175-181: up to the first trades request
EnterVolumeHistory(s, e, fid) ==
    /\ start_ts' = IntTimestamp(ParseDate(s))
    /\ end_ts' = IntTimestamp(ParseDate(e))
    /\ bucket_width' = fid
    /\ offset' = 0
    /\ all_trades' = <<>>
    /\ pc' = "trades"

\* price_history, lines 129-136, called from fetch: up to its first request,
\* or, when the loop does not run, its return of [] and the call of
\* volume_history that follows in the dict literal
EnterPriceHistory(s, e, fid) ==
    /\ current_start' = ParseDate(s)
    /\ end' = ParseDate(e)
    /\ full_data' = <<>>
    /\ IF PriceLoopRuns(ParseDate(s), ParseDate(e))
       THEN pc' = "price" /\ UNCHANGED <<prices, volumeVars>>
       ELSE prices' = <<>> /\ EnterVolumeHistory(s, e, fid * 60)

\* fetch, lines 308-334: the for loop reaches position i of ms.items() with
\* historical_data hd and the warnings w printed so far
NextEntity(ms, lo, hi, i, hd, w) ==
    /\ idx' = i
    /\ historical_data' = hd
    /\ warnings' = w
    /\ IF i > Len(ms)
       THEN ReturnTop(hd) /\ UNCHANGED <<prices, priceVars, volumeVars>>
       ELSE UNCHANGED <<exc, ret>> /\ EnterPriceHistory(lo, hi, args.fidelity)

\* except APIRequestError: print the warning, continue
SkipEntity ==
    /\ NextEntity(markets, min_start_date[1], max_end_date[1], idx + 1, historical_data,
                  Append(warnings, markets[idx].question))
    /\ UNCHANGED <<markets, min_start_date, max_end_date>>

\* historical_data[question] = {'prices': ..., 'volumes': v}
StoreEntity(v) ==
    /\ NextEntity(markets, min_start_date[1], max_end_date[1], idx + 1,
                  Append(historical_data,
                         [question |-> markets[idx].question, prices |-> prices,
                          volumes |-> v]),
                  warnings)
    /\ UNCHANGED <<markets, min_start_date, max_end_date>>

CallPriceHistory ==
    /\ caller = "price_history" /\ pc = "call"
    /\ current_start' = ParseDate(args.start_date)
    /\ end' = ParseDate(args.end_date)
    /\ full_data' = <<>>
    /\ IF PriceLoopRuns(ParseDate(args.start_date), ParseDate(args.end_date))
       THEN pc' = "price" /\ UNCHANGED <<exc, ret>>
       ELSE ReturnTop(<<>>)
    /\ UNCHANGED <<caller, args, fetchVars, volumeVars, worldVars>>

CallVolumeHistory ==
    /\ caller = "volume_history" /\ pc = "call"
    /\ EnterVolumeHistory(args.start_date, args.end_date, args.fidelity)
    /\ UNCHANGED <<caller, args, exc, ret, fetchVars, priceVars, worldVars>>

\* fetch -> fetch_market_metadata -> extract_event_slug, up to the metadata request
CallFetch ==
    /\ caller = "fetch" /\ pc = "call"
    /\ IF ExtractEventSlug(args.url).error # ""
       THEN RaiseTop(ExtractEventSlug(args.url).error)
       ELSE pc' = "metadata" /\ UNCHANGED <<exc, ret>>
    /\ UNCHANGED <<caller, args, fetchVars, priceVars, volumeVars, worldVars>>

\* the metadata request and fetch up to the first series request
MetadataRequest ==
    /\ pc = "metadata"
    /\ metadata_requests' = metadata_requests + 1
    /\ \E resp \in MetadataResponses :
         LET meta == MarketMetadata(resp)
             ms == IF args.exclude_placeholders
                   THEN RemovePlaceholderMarkets(meta.result)
                   ELSE meta.result
         IN  /\ metadata_response' = Some(resp)
             /\ IF meta.error # ""
                THEN RaiseTop(meta.error)
                     /\ UNCHANGED <<fetchVars, priceVars, volumeVars>>
                ELSE IF ms = <<>> \/ StartDates(ms) = {} \/ EndDates(ms) = {}
                THEN /\ RaiseTop("ValueError")
                     /\ markets' = ms
                     /\ UNCHANGED <<min_start_date, max_end_date, idx, prices,
                                    historical_data, warnings, priceVars, volumeVars>>
                ELSE /\ markets' = ms
                     /\ min_start_date' = Some(MinOf(StartDates(ms)))
                     /\ max_end_date' = Some(MaxOf(EndDates(ms)))
                     /\ NextEntity(ms, MinOf(StartDates(ms)), MaxOf(EndDates(ms)), 1,
                                   <<>>, <<>>)
    /\ UNCHANGED <<caller, args, price_requests, price_responses, trade_requests,
                   trade_pages, clock>>

\* one iteration of the loop of price_history: the request, its response, and
\* what follows up to the next request
PriceRequest ==
    /\ pc = "price"
    /\ LET chunk_end == ChunkEnd(current_start, end)
           token == IF caller = "fetch" THEN PrimaryTokenId(markets[idx].info)
                    ELSE args.token_id
           params == PriceParams(token, args.fidelity, current_start, chunk_end)
       IN  /\ price_requests' = Append(price_requests,
                                       [params |-> params, entity |-> idx,
                                        window |-> <<current_start, chunk_end>>])
           /\ \E resp \in PriceResponses(params) :
                /\ price_responses' = Append(price_responses, resp)
                /\ IF resp.status # "ok"
                   THEN IF caller = "fetch"
                        THEN SkipEntity
                        ELSE RaiseTop("APIRequestError")
                             /\ UNCHANGED <<fetchVars, priceVars, volumeVars>>
                   ELSE IF PriceLoopRuns(chunk_end, end)
                   THEN /\ full_data' = ExtendHistory(full_data, resp.data)
                        /\ current_start' = chunk_end
                        /\ UNCHANGED <<pc, exc, ret, end, fetchVars, volumeVars>>
                   ELSE /\ full_data' = ExtendHistory(full_data, resp.data)
                        /\ current_start' = chunk_end
                        /\ UNCHANGED end
                        /\ IF caller = "fetch"
                           THEN /\ prices' = ExtendHistory(full_data, resp.data)
                                /\ EnterVolumeHistory(min_start_date[1], max_end_date[1],
                                                      args.fidelity * 60)
                                /\ UNCHANGED <<exc, ret, markets, min_start_date,
                                               max_end_date, idx, historical_data,
                                               warnings>>
                           ELSE /\ ReturnTop(ExtendHistory(full_data, resp.data))
                                /\ UNCHANGED <<fetchVars, volumeVars>>
    /\ UNCHANGED <<caller, args, metadata_requests, metadata_response, trade_requests,
                   trade_pages, clock>>

\* one iteration of the loop of volume_history: the request, its response, the
\* for loop over the page and, after the last page, the aggregation
TradesRequest ==
    /\ pc = "trades"
    /\ trade_requests' = Append(trade_requests,
                                [limit |-> PageSize, offset |-> offset, at |-> clock,
                                 entity |-> idx])
    /\ \E resp \in TradeResponses(offset \div PageSize + 1) :
         /\ trade_pages' = Append(trade_pages, resp)
         /\ IF resp.status # "ok"
            THEN /\ clock' = clock
                 /\ IF caller = "fetch"
                    THEN SkipEntity
                    ELSE RaiseTop("APIRequestError")
                         /\ UNCHANGED <<fetchVars, priceVars, volumeVars>>
            ELSE LET trades == all_trades \o ValidTrades(resp.data, start_ts, end_ts)
                     agg == Accumulate(EmptyDict, trades, bucket_width)
                 IN  /\ clock' = clock + SleptFor(resp.data, start_ts, end_ts)
                     /\ IF IsFullPage(resp.data)
                        THEN /\ all_trades' = trades
                             /\ offset' = NextOffset(offset)
                             /\ UNCHANGED <<pc, exc, ret, bucket_width, start_ts, end_ts,
                                            fetchVars, priceVars>>
                        ELSE IF agg.error # ""
                        THEN /\ RaiseTop(agg.error)
                             /\ all_trades' = trades
                             /\ UNCHANGED <<bucket_width, start_ts, end_ts, offset,
                                            fetchVars, priceVars>>
                        ELSE IF caller = "fetch"
                        THEN StoreEntity(Emit(agg.volume_data))
                        ELSE /\ ReturnTop(Emit(agg.volume_data))
                             /\ all_trades' = trades
                             /\ UNCHANGED <<bucket_width, start_ts, end_ts, offset,
                                            fetchVars, priceVars>>
    /\ UNCHANGED <<caller, args, metadata_requests, metadata_response, price_requests,
                   price_responses>>

NextSeries == CallPriceHistory \/ CallVolumeHistory \/ PriceRequest \/ TradesRequest
SeriesSpec == (InitPrice \/ InitVolume) /\ [][NextSeries]_vars

Next == CallFetch \/ MetadataRequest \/ PriceRequest \/ TradesRequest
Spec == InitFetch /\ [][Next]_vars

(***************************************************************************)
(* Properties of price_history and volume_history (under SeriesSpec).      *)
(***************************************************************************)
Ended == pc \in {"returned", "raised"}
Ceil(a, b) == (a + b - 1) \div b
Failed(resp) == resp.status # "ok"

\* C1: the requests of price_history partition [start, end] into contiguous
\* windows of at most 15 days: the first starts at start, each starts where
\* the previous one ended, the last ends at end, their number is
\* ceil((end - start) / 15 days) whatever the responses held; 40 days give
\* the windows [0,15), [15,30), [30,40) days; start >= end gives no request
\* and an empty result.
C1_WindowsPartitionRange ==
    caller = "price_history" =>
        LET s == args.start_date
            e == args.end_date
            n == Len(price_requests)
            w(k) == price_requests[k].window
        IN  /\ \A k \in 1..n :
                 /\ w(k)[1] = (IF k = 1 THEN s ELSE w(k - 1)[2])
                 /\ w(k)[1] < w(k)[2]
                 /\ w(k)[2] - w(k)[1] <= 15 * Day
                 /\ w(k)[2] <= e
                 /\ price_requests[k].params.startTs = IntTimestamp(w(k)[1])
                 /\ price_requests[k].params.endTs = IntTimestamp(w(k)[2])
                 /\ price_requests[k].params.endTs - price_requests[k].params.startTs
                        <= 15 * 86400
            /\ (pc = "returned" /\ s < e) =>
                 /\ n = Ceil(e - s, 15 * Day)
                 /\ w(n)[2] = e
            /\ (pc = "returned" /\ e - s = 40 * Day) =>
                 /\ n = 3
                 /\ w(1) = <<s, s + 15 * Day>>
                 /\ w(2) = <<s + 15 * Day, s + 30 * Day>>
                 /\ w(3) = <<s + 30 * Day, s + 40 * Day>>
            /\ s >= e => (pc # "call" => (pc = "returned" /\ n = 0 /\ ret = <<>>))

\* a 40-day range has been fetched with three requests
C1_Witness ==
    /\ caller = "price_history" /\ pc = "returned"
    /\ args.end_date - args.start_date = 40 * Day
    /\ Len(price_requests) = 3
    /\ full_data # <<>>

\* sizes of the pages received so far (-1 for a failed request)
PageSizes == [k \in 1..Len(trade_pages) |->
                 IF Failed(trade_pages[k]) THEN -1 ELSE PageLen(trade_pages[k].data)]

\* C2: the k-th trade request carries limit 500 and offset 500*(k-1); a page
\* of exactly 500 items is followed by one more request; the first page that
\* is empty or shorter than 500 is the last request.  Pages of sizes
\* [500, 500, 240] end after exactly 3 requests; a first page of size 0 ends
\* after exactly 1 request with an empty result.
C2_OffsetPagination ==
    caller = "volume_history" =>
        LET n == Len(trade_requests)
        IN  /\ Len(trade_pages) = n
            /\ \A k \in 1..n :
                 /\ trade_requests[k].limit = 500
                 /\ trade_requests[k].offset = 500 * (k - 1)
                 /\ PageSizes[k] = 500 => (k < n \/ pc = "trades")
                 /\ PageSizes[k] \in 0..499 => (k = n /\ Ended)
            /\ (n >= 3 /\ SubSeq(PageSizes, 1, 3) = <<500, 500, 240>>) => (n = 3 /\ Ended)
            /\ (n >= 1 /\ PageSizes[1] = 0) => (n = 1 /\ pc = "returned" /\ ret = <<>>)

\* pages of sizes 500, 500, 240 have been fetched
C2_Witness ==
    /\ caller = "volume_history" /\ pc = "returned"
    /\ PageSizes = <<500, 500, 240>>
    /\ Len(trade_requests) = 3

\* the trade objects received over all pages, as runs
RECURSIVE ReceivedRuns(_)
ReceivedRuns(pages) ==
    IF pages = <<>> THEN <<>>
    ELSE (IF Failed(Head(pages)) THEN <<>> ELSE Head(pages).data)
         \o ReceivedRuns(Tail(pages))

\* the distinct items of a run-length encoded list
ItemsOf(runs) == {runs[i].item : i \in 1..Len(runs)}

\* over the runs whose item is in S: the number of items, the sum of their sizes
CountIn(runs, S) ==
    SumSeq([i \in 1..Len(runs) |-> IF runs[i].item \in S THEN runs[i].n ELSE 0])
SizeIn(runs, S) ==
    SumSeq([i \in 1..Len(runs) |->
               IF runs[i].item \in S THEN runs[i].n * runs[i].item.size[1].val ELSE 0])

HasTsAndSize(t) == t.timestamp # None /\ t.size # None
Floor(ts, width) == ts - (ts % width)

\* C3: every validated trade is accumulated into exactly one bucket, the one
\* keyed ts - (ts mod fidelity); the emitted list holds one record per
\* distinct bucket key, strictly ascending by timestamp.
C3_BucketsFloorAlignedSorted ==
    (caller = "volume_history" /\ pc = "returned") =>
        LET got == ReceivedRuns(trade_pages)
            width == args.fidelity
            keys == {Floor(got[i].item.timestamp[1], width) :
                        i \in {j \in 1..Len(got) : HasTsAndSize(got[j].item)}}
            InBucket(b, t) == HasTsAndSize(t) /\ Floor(t.timestamp[1], width) = b
        IN  /\ {ret[i].timestamp : i \in 1..Len(ret)} = keys
            /\ Len(ret) = Cardinality(keys)
            /\ \A i, j \in 1..Len(ret) : i < j => ret[i].timestamp < ret[j].timestamp
            /\ \A i \in 1..Len(ret) :
                 ret[i].buy_count + ret[i].sell_count
                     = CountIn(got, {t \in ItemsOf(got) : InBucket(ret[i].timestamp, t)})

\* trades at 10, 15 and 65 with width 60: bucket 0 holds two, bucket 60 follows
C3_Witness ==
    /\ caller = "volume_history" /\ pc = "returned" /\ args.fidelity = 60
    /\ LET got == ReceivedRuns(trade_pages)
       IN  {got[i].item.timestamp : i \in 1..Len(got)} = {Some(10), Some(15), Some(65)}
    /\ Len(ret) = 2
    /\ ret[1].timestamp = 0 /\ ret[1].buy_count + ret[1].sell_count = 2
    /\ ret[2].timestamp = 60

IsBuy(t) == HasTsAndSize(t) /\ t.side = Some("BUY")
IsSell(t) == HasTsAndSize(t) /\ t.side = Some("SELL")
IsUnknown(t) == HasTsAndSize(t) /\ t.side \in {None, Some("UNKNOWN")}
Total(field(_)) == SumSeq([i \in 1..Len(ret) |-> field(ret[i])])

\* C5: a trade whose side is UNKNOWN or absent adds to no total of any
\* bucket, and the aggregation still completes and emits the buckets built
\* from the BUY and SELL trades.
C5_UnknownSideDropped ==
    (/\ caller = "volume_history" /\ Ended
     /\ \A k \in 1..Len(trade_pages) : ~Failed(trade_pages[k])
     /\ \E t \in ItemsOf(ReceivedRuns(trade_pages)) : IsUnknown(t)) =>
        LET got == ReceivedRuns(trade_pages)
            buys == {t \in ItemsOf(got) : IsBuy(t)}
            sells == {t \in ItemsOf(got) : IsSell(t)}
        IN  /\ pc = "returned"
            /\ Total(LAMBDA b : b.buy_count) = CountIn(got, buys)
            /\ Total(LAMBDA b : b.sell_count) = CountIn(got, sells)
            /\ Total(LAMBDA b : b.buy_volume) = SizeIn(got, buys)
            /\ Total(LAMBDA b : b.sell_volume) = SizeIn(got, sells)

\* C6: between two successive trade-page requests exactly one delay of 1 time
\* unit elapses, whatever the number of trades of the earlier page.
C6_OneDelayBetweenRequests ==
    caller = "volume_history" =>
        \A k \in 2..Len(trade_requests) :
            trade_requests[k].at - trade_requests[k - 1].at = 1

\* C7: a failed request (timeout, transport error, non-success status) of a
\* series fetch ends it by raising APIRequestError: nothing is returned, not
\* even the items of earlier windows / pages, and no request follows it.
C7_NoPartialDataOnFailure ==
    /\ caller = "price_history" =>
         /\ Len(price_responses) = Len(price_requests)
         /\ \A k \in 1..Len(price_responses) :
              Failed(price_responses[k]) =>
                  /\ k = Len(price_requests)
                  /\ pc = "raised" /\ exc = "APIRequestError" /\ ret = <<>>
    /\ caller = "volume_history" =>
         /\ Len(trade_pages) = Len(trade_requests)
         /\ \A k \in 1..Len(trade_pages) :
              Failed(trade_pages[k]) =>
                  /\ k = Len(trade_requests)
                  /\ pc = "raised" /\ exc = "APIRequestError" /\ ret = <<>>

\* the third window fails after two windows delivered points
C7_Witness ==
    /\ caller = "price_history" /\ pc = "raised" /\ exc = "APIRequestError"
    /\ Len(price_requests) = 3 /\ Failed(price_responses[3])
    /\ Len(full_data) = 2 /\ ret = <<>>

\* C10: items lacking a timestamp or a size contribute to no bucket; summed
\* over the emitted buckets, buy_count is the number of items with timestamp,
\* size and side BUY received over all pages and buy_volume the sum of their
\* sizes (likewise for SELL); start_date / end_date exclude no trade.
C10_Conservation ==
    (caller = "volume_history" /\ pc = "returned") =>
        LET got == ReceivedRuns(trade_pages)
            buys == {t \in ItemsOf(got) : IsBuy(t)}
            sells == {t \in ItemsOf(got) : IsSell(t)}
        IN  /\ Total(LAMBDA b : b.buy_count) = CountIn(got, buys)
            /\ Total(LAMBDA b : b.sell_count) = CountIn(got, sells)
            /\ Total(LAMBDA b : b.buy_volume) = SizeIn(got, buys)
            /\ Total(LAMBDA b : b.sell_volume) = SizeIn(got, sells)
            /\ Total(LAMBDA b : b.buy_count + b.sell_count)
                   = CountIn(got, {t \in ItemsOf(got) : HasTsAndSize(t)})

\* three pages, with items lacking a timestamp or a size and trades after end_date
C10_Witness ==
    /\ caller = "volume_history" /\ pc = "returned" /\ Len(trade_pages) = 3
    /\ LET got == ReceivedRuns(trade_pages)
       IN  /\ \E t \in ItemsOf(got) : t.timestamp = None
           /\ \E t \in ItemsOf(got) : t.size = None
           /\ \E t \in ItemsOf(got) : IsSell(t) /\ t.timestamp[1] > end_ts
           /\ Total(LAMBDA b : b.buy_count) >= 2 * 499

(***************************************************************************)
(* Properties of fetch (under Spec).                                       *)
(***************************************************************************)
\* the markets of the event the metadata request delivered
EventMarkets ==
    IF metadata_response = None THEN <<>>
    ELSE IF Failed(metadata_response[1]) THEN <<>>
    ELSE IF metadata_response[1].data = <<>> THEN <<>>
    ELSE metadata_response[1].data[1].markets

\* the market a question stands for: the last one of the event carrying it
Effective(i) ==
    \A j \in (i + 1)..Len(EventMarkets) :
        EventMarkets[j].question # EventMarkets[i].question
IsRetained(q) == ~args.exclude_placeholders \/ ~HasPlaceholder(Lower(q))
RetainedIndices ==
    {i \in 1..Len(EventMarkets) : Effective(i) /\ IsRetained(EventMarkets[i].question)}
RetainedQuestions == {EventMarkets[i].question : i \in RetainedIndices}
FirstIndex(q) == CHOOSE i \in 1..Len(EventMarkets) :
                    /\ EventMarkets[i].question = q
                    /\ \A j \in 1..(i - 1) : EventMarkets[j].question # q

UrlHasSlug ==
    /\ Len(args.url) >= 2
    /\ \E i \in 1..Len(args.url[Len(args.url)]) :
          args.url[Len(args.url)][i] \notin Whitespace
FetchPreconditions ==
    /\ UrlHasSlug
    /\ EventMarkets # <<>>
    /\ RetainedIndices # {}
    /\ \E i \in RetainedIndices : EventMarkets[i].startDate # None
    /\ \E i \in RetainedIndices : EventMarkets[i].closedTime # None

SeriesRequested == price_requests # <<>> \/ trade_requests # <<>>
Keys(d) == {d[i].question : i \in 1..Len(d)}

\* the entities a request of which failed
FailedEntities ==
    {price_requests[k].entity : k \in {j \in 1..Len(price_responses) : Failed(price_responses[j])}}
    \cup {trade_requests[k].entity : k \in {j \in 1..Len(trade_pages) : Failed(trade_pages[j])}}
RequestedEntities ==
    {price_requests[k].entity : k \in 1..Len(price_requests)}
    \cup {trade_requests[k].entity : k \in 1..Len(trade_requests)}

\* C4: once the metadata is fetched and the shared range derived, a failure of
\* the price or volume series fetch of one entity never aborts the batch:
\* fetch returns normally, the failed entity is absent from the Result Map,
\* the remaining entities are still fetched, and every entity whose fetches
\* succeeded is present.
C4_FailureNeverAbortsBatch ==
    (caller = "fetch" /\ min_start_date # None /\ Ended) =>
        /\ pc = "returned"
        /\ RequestedEntities = 1..Len(markets)
        /\ \A i \in 1..Len(markets) :
             markets[i].question \in Keys(ret) <=> i \notin FailedEntities

\* C8: every key of the map fetch returns is the question of a market
\* retained by the filter and maps to both a prices and a volumes list; keys
\* come in metadata iteration order; when no series fetch fails the keys are
\* exactly the retained questions, so two retained markets give two keys.
C8_ResultMapShape ==
    caller = "fetch" =>
        /\ \A i \in 1..Len(historical_data) :
             {"prices", "volumes"} \subseteq DOMAIN historical_data[i]
        /\ pc = "returned" =>
             /\ ret = historical_data
             /\ Keys(ret) \subseteq RetainedQuestions
             /\ \A i, j \in 1..Len(ret) :
                  i < j => FirstIndex(ret[i].question) < FirstIndex(ret[j].question)
             /\ FailedEntities = {} =>
                  /\ Keys(ret) = RetainedQuestions
                  /\ Cardinality(RetainedQuestions) = 2 => Len(ret) = 2

\* an event whose two markets are both retained, returned with two keys
C8_Witness ==
    /\ caller = "fetch" /\ pc = "returned" /\ FailedEntities = {}
    /\ args.exclude_placeholders
    /\ Cardinality(RetainedQuestions) = 2
    /\ Len(ret) = 2
    /\ ret[1].volumes # <<>> /\ ret[2].prices # <<>>

\* C9: no price-history or trade request is issued unless the slug was
\* extracted, the metadata request succeeded with at least one market, a
\* market survived the filter and a start date and an end date are present;
\* otherwise fetch raises InvalidURLError, APIRequestError or ValueError and
\* returns no Result Map.
C9_AbortBeforeFetch ==
    caller = "fetch" =>
        /\ SeriesRequested => FetchPreconditions
        /\ (metadata_requests > 0) => UrlHasSlug
        /\ (Ended /\ ~FetchPreconditions) =>
             /\ pc = "raised" /\ ret = <<>> /\ ~SeriesRequested
             /\ exc = (IF ~UrlHasSlug THEN "InvalidURLError"
                       ELSE IF EventMarkets = <<>> THEN "APIRequestError"
                       ELSE "ValueError")

\* every market of the event is a placeholder: ValueError, and no series request
C9_Witness ==
    /\ caller = "fetch" /\ pc = "raised" /\ exc = "ValueError"
    /\ EventMarkets # <<>> /\ RetainedIndices = {}
    /\ ~SeriesRequested

====
